---- MODULE Spec2Model ----
(***************************************************************************)
(* REBOUNDx core (core.c): the parameter store attached to particles and   *)
(* effects, the effect registry, the per-step dispatch of the registered   *)
(* callbacks, and the init / teardown of the extras state.                 *)
(*                                                                         *)
(* Pointers are pairs <<kind, index>>.  malloc hands out a fresh address   *)
(* of the requested kind; nothing is reused before rebx_free.  A parameter *)
(* name enters every operation only through reb_hash(param_name), so the   *)
(* operations take the name's hash as their input.                         *)
(***************************************************************************)
EXTENDS Integers, Sequences, FiniteSets, TLC

\* ---- bounds of the model ------------------------------------------------
NumParticles == 1
MaxEffects == 2
MaxParams == 2
NumNames == 2
NumEffectNames == 2
MaxLen == 2
MaxVal == 1
MaxLedger == 2
NumHeap == 1
NumBodies == 3
MaxUserSets == 1
MaxAnomaly == 1
MaxPassages == 1
MaxTime == 1
MaxStepArg == 1
MaxIter == 3
MaxChain == 2

\* ---- values ---------------------------------------------------------------
NULL == <<"null", 0>>

\* enum rebx_object_type: the two tags rebx_validate_ap_address ranges over
REBX_TYPE_EFFECT == 1
REBX_TYPE_PARTICLE == 2

\* (void*)(intptr_t)j
TagPtr(j) == <<"tag", j>>

\* enum rebx_param_type
REBX_TYPE_DOUBLE == "double"
REBX_TYPE_INT == "int"

ParamTypes == {REBX_TYPE_DOUBLE, REBX_TYPE_INT}

Particles == {<<"p", i>> : i \in 1..NumParticles}

\* hashes of the parameter names the callers use
Names == 1..NumNames

\* hashes of the effect names the callers use
EffectNames == 1..NumEffectNames

\* reb_hash("gr"): a name the table in rebx_add lists; the other effect names
\* are listed nowhere
HashGr == 1

\* the names the table in rebx_add lists
BuiltinNames == {HashGr}

\* the callback the table gives for a listed name (rebx_gr for "gr")
BuiltinCallback(name) == <<"builtin", name>>

Vals == 1..MaxVal

\* value of an element of freshly malloc'ed storage nobody has written yet
Uninit == 0

\* the callbacks a caller may pass; a callback appends the effect it is
\* called with to the trace of the running pass
Callbacks == {<<"cb", 1>>}

\* the functions the core installs into the host's hooks
HookForces == <<"fn", 1>>
HookPtm == <<"fn", 2>>
UserHook == <<"fn", 3>>

\* the simulation and the extras state
SimPtr == <<"sim", 1>>
RebxPtr == <<"rebx", 1>>

\* ---- state ----------------------------------------------------------------
VARIABLES
    pc,        \* "uninit", "live", "freed"; "crashed", "undefined" after undefined behaviour
    sim,       \* struct reb_simulation: the fields the core touches
    rebx,      \* struct rebx_extras
    particles, \* particle -> [ap]
    effects,   \* allocated struct rebx_effect, by address
    params,    \* allocated struct rebx_param, by address
    mem,       \* backing storage (param->contents), by handle
    ledger,    \* allocated struct rebx_param_to_be_freed, by address
    freed,     \* addresses passed to free()
    live,      \* history: <<object, hash>> -> handle of the attach not yet removed
    written,   \* history: handle -> the values last written through it
    last,      \* history: the last call, its arguments and its result
    vpc,       \* rebx_validate_ap_address: "idle", "loop", "after", "returned", "aborted", "crashed"
    vcand,     \* its argument newparam
    vaddr,     \* address[]: slots 0..4, and what the loop stored past them
    vi,        \* i
    vret,      \* the address returned
    vfreed,    \* addresses passed to free()
    vtried,    \* history: the results of the malloc calls of the retry loop
    tpc,       \* rebx_tides_dynamical: "ok"; "crashed", "undefined" after undefined behaviour
    tn,        \* sim->N of the simulation the tides act on; 0 before it is built
    tap,       \* index -> (parameter name -> value): what p->ap holds for sim->particles[index]
    txv,       \* index -> "host" or "kicked": who wrote the position and velocity last
    tlast,     \* history: the last tides-side call and what it detected
    walk,      \* a pass of rebx_forces / rebx_post_timestep_modifications in progress
    stp        \* rebx_ias15_step: sim->t, sim->dt, the locals and the position in the call

vars == <<pc, sim, rebx, particles, effects, params, mem, ledger, freed,
          live, written, last, vpc, vcand, vaddr, vi, vret, vfreed, vtried,
          tpc, tn, tap, txv, tlast, walk, stp>>

tidesVars == <<tpc, tn, tap, txv, tlast>>

coreVars == <<pc, sim, rebx, particles, effects, params, mem, ledger, freed,
              live, written, last>>

validateVars == <<vpc, vcand, vaddr, vi, vret, vfreed, vtried>>

\* ---- helpers ----------------------------------------------------------------
EffectAddr(k) == <<"e", k>>

ParamAddr(k) == <<"n", k>>

ContentsAddr(k) == <<"c", k>>

ShapeAddr(k) == <<"s", k>>

LedgerAddr(k) == <<"l", k>>

Objects == Particles \cup DOMAIN effects

NoCall == [op |-> "none", obj |-> NULL, hash |-> 0, ret |-> NULL, err |-> FALSE, pre |-> <<>>]

Call(op, obj, hash, ret, err, pre) ==
    [op |-> op, obj |-> obj, hash |-> hash, ret |-> ret, err |-> err, pre |-> pre]

\* p->ap of the object seen as a struct reb_particle: a particle's own ap
\* slot; for an effect the slot rebx_add_effect writes through the cast
ParticleViewAp(object) ==
    IF object \in Particles THEN particles[object].ap ELSE effects[object].pap

rebx_get_object_type(object) ==
    IF ParticleViewAp(object) = TagPtr(REBX_TYPE_EFFECT)
    THEN REBX_TYPE_EFFECT
    ELSE REBX_TYPE_PARTICLE

\* the head the switch on the object type reads: effect->ap or p->ap
HeadOf(object) ==
    IF rebx_get_object_type(object) = REBX_TYPE_EFFECT
    THEN effects[object].ap
    ELSE ParticleViewAp(object)

RECURSIVE ScanFrom(_, _)

\* ScanFrom that starts the comparison at the node after current
ScanAfterHead(current, hash) ==
    IF current = NULL THEN NULL ELSE ScanFrom(params[current].next, hash)

\* while(current != NULL){ if(current->hash == hash) return current; current = current->next; }
ScanFrom(current, hash) ==
    IF current = NULL THEN NULL
    ELSE IF params[current].hash = hash THEN current
    ELSE ScanFrom(params[current].next, hash)

rebx_get_param_node(object, hash) == ScanFrom(HeadOf(object), hash)

\* rebx_get_param that finds nothing
rebx_get_param_NotFound(object, hash) == NULL

rebx_get_param(object, hash) ==
    LET node == rebx_get_param_node(object, hash)
    IN IF node = NULL THEN NULL ELSE params[node].contents

RECURSIVE ListFrom(_)
\* the nodes a traversal from current visits, in order
ListFrom(current) ==
    IF current = NULL THEN <<>>
    ELSE <<current>> \o ListFrom(params[current].next)

StoreOf(object) == ListFrom(HeadOf(object))

\* Product that stops after the first axis
ProductFirstAxis(shape) == IF shape = <<>> THEN 1 ELSE Head(shape)

RECURSIVE Product(_)
\* size = 1; for(i<ndim) size *= shape[i];
Product(shape) ==
    IF shape = <<>> THEN 1 ELSE Head(shape) * Product(Tail(shape))

RECURSIVE EffectsFrom(_)
\* the effects a walk of the registry from current visits, in order
EffectsFrom(current) ==
    IF current = NULL THEN <<>>
    ELSE <<current>> \o EffectsFrom(effects[current].next)

Range(s) == {s[i] : i \in 1..Len(s)}

EmptyFn == [x \in {} |-> NULL]

\* f without the key k
Without(f, k) == [x \in DOMAIN f \ {k} |-> f[x]]

\* ---- initial state ------------------------------------------------------------
ValidateIdle ==
    /\ vpc = "idle"
    /\ vcand = NULL
    /\ vaddr = <<>>
    /\ vi = 0
    /\ vret = NULL
    /\ vfreed = {}
    /\ vtried = <<>>

NoTidesCall ==
    [op |-> "none", passage |-> FALSE, evolved |-> FALSE, M |-> 0, chaotic |-> FALSE]

TidesIdle ==
    /\ tpc = "ok"
    /\ tn = 0
    /\ tap = <<>>
    /\ txv = <<>>
    /\ tlast = NoTidesCall

\* no pass in progress
WalkIdle == [pc |-> "idle", current |-> NULL, trace |-> <<>>, start |-> <<>>]

\* rebx_ias15_step not called yet, on a simulation at t = 0 with dt = 0
StepIdle ==
    [pc |-> "idle", t |-> 0, dt |-> 0, old_t |-> 0, old_dt |-> 0, t_needed |-> 0,
     iter |-> 0, entry |-> <<0, 0>>, calls |-> 0]

Init ==
    /\ pc = "uninit"
    /\ sim \in [additional_forces : {NULL, UserHook},
                post_timestep_modifications : {NULL, UserHook},
                extras : {NULL},
                force_is_velocity_dependent : {0}]
    /\ rebx = [sim |-> NULL, params_to_be_freed |-> NULL, effects |-> NULL]
    /\ particles = [p \in Particles |-> [ap |-> NULL]]
    /\ effects = EmptyFn
    /\ params = EmptyFn
    /\ mem = EmptyFn
    /\ ledger = EmptyFn
    /\ freed = {}
    /\ live = EmptyFn
    /\ written = EmptyFn
    /\ last = NoCall
    /\ ValidateIdle
    /\ TidesIdle
    /\ walk = WalkIdle
    /\ stp = StepIdle

\* ---- initialization routines -----------------------------------------------------
\* rebx_init that leaves a hook alone when the host had set it
rebx_init_KeepsSetHooks ==
    /\ pc = "uninit"
    /\ pc' = "live"
    /\ sim' = [sim EXCEPT !.extras = RebxPtr,
                          !.additional_forces =
                              IF @ = NULL THEN HookForces ELSE @,
                          !.post_timestep_modifications =
                              IF @ = NULL THEN HookPtm ELSE @]
    /\ rebx' = [sim |-> SimPtr, params_to_be_freed |-> NULL, effects |-> NULL]
    /\ last' = Call("init", NULL, 0, RebxPtr, FALSE,
                    <<sim.additional_forces, sim.post_timestep_modifications>>)
    /\ UNCHANGED <<particles, effects, params, mem, ledger, freed, live, written>>
    /\ UNCHANGED <<validateVars, tidesVars, walk, stp>>

\* rebx_init: malloc of the extras state, then rebx_initialize; the hooks the
\* host had set (they draw the reb_warning) are overwritten
rebx_init ==
    /\ pc = "uninit"
    /\ pc' = "live"
    /\ sim' = [sim EXCEPT !.extras = RebxPtr,
                          !.additional_forces = HookForces,
                          !.post_timestep_modifications = HookPtm]
    /\ rebx' = [sim |-> SimPtr, params_to_be_freed |-> NULL, effects |-> NULL]
    /\ last' = Call("init", NULL, 0, RebxPtr, FALSE,
                    <<sim.additional_forces, sim.post_timestep_modifications>>)
    /\ UNCHANGED <<particles, effects, params, mem, ledger, freed, live, written>>
    /\ UNCHANGED <<validateVars, tidesVars, walk, stp>>

\* ---- adders for the linked lists in the extras structure ---------------------------
\* NewEffect with the tag left in effect->ap
NewEffectTagInHead(name) ==
    [hash |-> name, ap |-> TagPtr(REBX_TYPE_EFFECT), force |-> NULL, ptm |-> NULL,
     rebx |-> RebxPtr, next |-> rebx.effects, pap |-> TagPtr(REBX_TYPE_EFFECT)]

\* the struct rebx_add_effect leaves behind: ap cleared, no callbacks, linked in
\* front of the registry, and the tag written through the particle view
NewEffect(name) ==
    [hash |-> name, ap |-> NULL, force |-> NULL, ptm |-> NULL, rebx |-> RebxPtr,
     next |-> rebx.effects, pap |-> TagPtr(REBX_TYPE_EFFECT)]

rebx_add_effect(effect, fields) ==
    /\ effects' = (effect :> fields) @@ effects
    /\ rebx' = [rebx EXCEPT !.effects = effect]

NextEffect == EffectAddr(Cardinality(DOMAIN effects) + 1)

\* the table of built-in names and the reb_error branch are inside a comment:
\* the call sets no callback and reports nothing, whatever the name
rebx_add(name) ==
    /\ pc = "live"
    /\ Cardinality(DOMAIN effects) < MaxEffects
    /\ rebx_add_effect(NextEffect, NewEffect(name))
    /\ last' = Call("add", NextEffect, name, NextEffect, FALSE, <<>>)
    /\ UNCHANGED <<pc, sim, particles, params, mem, ledger, freed, live, written>>
    /\ UNCHANGED <<validateVars, tidesVars, walk, stp>>

\* FlagAfter that sets the flag whatever the argument
FlagAlwaysSet(force_is_velocity_dependent) == 1

\* if(force_is_velocity_dependent){ sim->force_is_velocity_dependent = 1; }
FlagAfter(force_is_velocity_dependent) ==
    IF force_is_velocity_dependent # 0 THEN 1 ELSE sim.force_is_velocity_dependent

rebx_add_custom_force(name, custom_force, force_is_velocity_dependent) ==
    /\ pc = "live"
    /\ Cardinality(DOMAIN effects) < MaxEffects
    /\ rebx_add_effect(NextEffect, [NewEffect(name) EXCEPT !.force = custom_force])
    /\ sim' = [sim EXCEPT !.force_is_velocity_dependent =
                              FlagAfter(force_is_velocity_dependent)]
    /\ last' = Call("add_custom_force", NextEffect, name, NextEffect, FALSE,
                    <<custom_force, force_is_velocity_dependent>>)
    /\ UNCHANGED <<pc, particles, params, mem, ledger, freed, live, written>>
    /\ UNCHANGED <<validateVars, tidesVars, walk, stp>>

rebx_add_custom_post_timestep_modification(name, custom_ptm) ==
    /\ pc = "live"
    /\ Cardinality(DOMAIN effects) < MaxEffects
    /\ rebx_add_effect(NextEffect, [NewEffect(name) EXCEPT !.ptm = custom_ptm])
    /\ last' = Call("add_custom_ptm", NextEffect, name, NextEffect, FALSE, <<custom_ptm>>)
    /\ UNCHANGED <<pc, sim, particles, params, mem, ledger, freed, live, written>>
    /\ UNCHANGED <<validateVars, tidesVars, walk, stp>>

NextLedger == LedgerAddr(Cardinality(DOMAIN ledger) + 1)

rebx_add_param_to_be_freed(param) ==
    /\ pc = "live"
    /\ Cardinality(DOMAIN ledger) < MaxLedger
    /\ ledger' = (NextLedger :> [param |-> param, next |-> rebx.params_to_be_freed]) @@ ledger
    /\ rebx' = [rebx EXCEPT !.params_to_be_freed = NextLedger]
    /\ last' = Call("add_param_to_be_freed", param, 0, NULL, FALSE, <<>>)
    /\ UNCHANGED <<pc, sim, particles, effects, params, mem, freed, live, written>>
    /\ UNCHANGED <<validateVars, tidesVars, walk, stp>>

\* ---- functions executing forces & ptm each timestep -----------------------------------
HasForce(effect) == effects[effect].force # NULL

HasPtm(effect) == effects[effect].ptm # NULL

\* the effects whose force callback one walk from the head calls, in call order
ForcePass == SelectSeq(EffectsFrom(rebx.effects), HasForce)

\* the effects whose ptm callback one walk from the head calls, in call order
PtmPass == SelectSeq(EffectsFrom(rebx.effects), HasPtm)

\* the host calls sim->additional_forces during force evaluation
rebx_forces ==
    /\ pc = "live"
    /\ sim.additional_forces = HookForces
    /\ last' = Call("forces", NULL, 0, ForcePass, FALSE, <<>>)
    /\ UNCHANGED <<pc, sim, rebx, particles, effects, params, mem, ledger, freed, live, written>>
    /\ UNCHANGED <<validateVars, tidesVars, walk, stp>>

\* the host calls sim->post_timestep_modifications after each timestep
rebx_post_timestep_modifications ==
    /\ pc = "live"
    /\ sim.post_timestep_modifications = HookPtm
    /\ last' = Call("ptm", NULL, 0, PtmPass, FALSE, <<>>)
    /\ UNCHANGED <<pc, sim, rebx, particles, effects, params, mem, ledger, freed, live, written>>
    /\ UNCHANGED <<validateVars, tidesVars, walk, stp>>

\* ---- garbage collection routines ------------------------------------------------------
\* rebx_remove_from_simulation that clears the force hook only
rebx_remove_from_simulation_ForcesOnly ==
    /\ pc = "live"
    /\ sim' = [sim EXCEPT !.additional_forces = NULL]
    /\ last' = Call("remove_from_simulation", NULL, 0, NULL, FALSE, <<>>)
    /\ UNCHANGED <<pc, rebx, particles, effects, params, mem, ledger, freed, live, written>>
    /\ UNCHANGED <<validateVars, tidesVars, walk, stp>>

rebx_remove_from_simulation ==
    /\ pc = "live"
    /\ sim' = [sim EXCEPT !.additional_forces = NULL,
                          !.post_timestep_modifications = NULL]
    /\ last' = Call("remove_from_simulation", NULL, 0, NULL, FALSE, <<>>)
    /\ UNCHANGED <<pc, rebx, particles, effects, params, mem, ledger, freed, live, written>>
    /\ UNCHANGED <<validateVars, tidesVars, walk, stp>>

RECURSIVE LedgerFrom(_)
\* the ledger entries rebx_free_params visits, in order
LedgerFrom(current) ==
    IF current = NULL THEN <<>>
    ELSE <<current>> \o LedgerFrom(ledger[current].next)

\* what rebx_free_params passes to free(): per entry the contents, the param, the entry
FreedByParams ==
    UNION {{params[ledger[l].param].contents, ledger[l].param, l} :
           l \in Range(LedgerFrom(rebx.params_to_be_freed))}

\* what rebx_free_effects passes to free()
FreedByEffects == Range(EffectsFrom(rebx.effects))

\* a param reached through two ledger entries is passed to free() twice
DoubleFree ==
    \E l1, l2 \in Range(LedgerFrom(rebx.params_to_be_freed)) :
        l1 # l2 /\ ledger[l1].param = ledger[l2].param

RECURSIVE rebx_free_params(_)
\* the calls of free() made by the walk of the ledger from current, in order:
\* free(current->param->contents); free(current->param); free(current);
rebx_free_params(current) ==
    IF current = NULL THEN <<>>
    ELSE <<params[ledger[current].param].contents, ledger[current].param, current>>
         \o rebx_free_params(ledger[current].next)

\* the calls of free() made by the walk of the registry, in order
rebx_free_effects == EffectsFrom(rebx.effects)

\* FreeLog that releases the extras state before what it points to
FreeLogExtrasFirst ==
    <<RebxPtr>> \o rebx_free_params(rebx.params_to_be_freed) \o rebx_free_effects

\* every call of free() made by rebx_free, in order:
\* rebx_free_params(rebx); rebx_free_effects(rebx); free(rebx);
FreeLog ==
    rebx_free_params(rebx.params_to_be_freed) \o rebx_free_effects \o <<RebxPtr>>

rebx_free ==
    /\ pc = "live"
    /\ pc' = IF DoubleFree THEN "undefined" ELSE "freed"
    /\ freed' = freed \cup FreedByParams \cup FreedByEffects \cup {RebxPtr}
    /\ last' = Call("free", NULL, 0, NULL, FALSE, FreeLog)
    /\ UNCHANGED <<sim, rebx, particles, effects, params, mem, ledger, live, written>>
    /\ UNCHANGED <<validateVars, tidesVars, walk, stp>>

\* ---- user interface for parameters ----------------------------------------------------
\* SetHead with the effect's head written through the particle view
SetHeadThroughCast(object, v) ==
    IF object \in Particles
    THEN /\ particles' = [particles EXCEPT ![object].ap = v]
         /\ UNCHANGED effects
    ELSE /\ effects' = [effects EXCEPT ![object].pap = v]
         /\ UNCHANGED particles

\* the store head written by the switch on the object type: effect->ap = v or p->ap = v
SetHead(object, v) ==
    IF rebx_get_object_type(object) = REBX_TYPE_EFFECT
    THEN /\ effects' = [effects EXCEPT ![object].ap = v]
         /\ UNCHANGED particles
    ELSE IF object \in Particles
    THEN /\ particles' = [particles EXCEPT ![object].ap = v]
         /\ UNCHANGED effects
    ELSE /\ effects' = [effects EXCEPT ![object].pap = v]
         /\ UNCHANGED particles

\* collision: newparam == (void*)(intptr_t)j for some j in REBX_TYPE_EFFECT..REBX_TYPE_PARTICLE
Collision(address) ==
    \E j \in REBX_TYPE_EFFECT..REBX_TYPE_PARTICLE : address = TagPtr(j)

NextParam == Cardinality(DOMAIN params) + 1

\* NewParam that ends the list of an effect at the effect's tag
NewParamTagNext(object, hash, param_type, ndim, shape) ==
    [hash |-> hash, param_type |-> param_type, ndim |-> ndim, shape |-> shape,
     size |-> Product(shape), contents |-> ContentsAddr(NextParam),
     next |-> IF object \in Particles THEN HeadOf(object) ELSE effects[object].pap]

\* NewParam that starts a store of its own
NewParamAlone(object, hash, param_type, ndim, shape) ==
    [hash |-> hash, param_type |-> param_type, ndim |-> ndim, shape |-> shape,
     size |-> Product(shape), contents |-> ContentsAddr(NextParam),
     next |-> NULL]

\* the node rebx_add_param_ fills in (its address has passed rebx_validate_ap_address)
NewParam(object, hash, param_type, ndim, shape) ==
    [hash |-> hash, param_type |-> param_type, ndim |-> ndim, shape |-> shape,
     size |-> Product(shape), contents |-> ContentsAddr(NextParam),
     next |-> HeadOf(object)]

rebx_add_param_(object, hash, param_type, ndim, shape) ==
    /\ pc = "live"
    /\ IF rebx_get_param(object, hash) # NULL
       THEN /\ last' = Call("add_param", object, hash, NULL, TRUE, StoreOf(object))
            /\ UNCHANGED <<particles, effects, params, mem, live>>
       ELSE /\ NextParam <= MaxParams
            /\ ~Collision(ParamAddr(NextParam))
            /\ params' = (ParamAddr(NextParam) :>
                             NewParam(object, hash, param_type, ndim, shape)) @@ params
            /\ mem' = (ContentsAddr(NextParam) :>
                          [i \in 1..Product(shape) |-> Uninit]) @@ mem
            /\ SetHead(object, ParamAddr(NextParam))
            /\ live' = (<<object, hash>> :> ContentsAddr(NextParam)) @@ live
            /\ last' = Call("add_param", object, hash, ContentsAddr(NextParam), FALSE,
                            StoreOf(object))
    /\ UNCHANGED <<pc, sim, rebx, ledger, freed, written>>
    /\ UNCHANGED <<validateVars, tidesVars, walk, stp>>

rebx_add_param(object, hash, param_type) ==
    rebx_add_param_(object, hash, param_type, 1, <<1>>)

rebx_add_param1d(object, hash, param_type, length) ==
    rebx_add_param_(object, hash, param_type, 1, <<length>>)

rebx_add_param2d(object, hash, param_type, ncols, nrows) ==
    rebx_add_param_(object, hash, param_type, 2, <<ncols, nrows>>)

\* PredFrom that gives up after the head
PredNever(current, hash) == NULL

RECURSIVE PredFrom(_, _)
\* while(current->next != NULL){ if(current->next->hash == hash) ...; current = current->next; }
\* the node whose next link is the first match, NULL when the walk ends without one
PredFrom(current, hash) ==
    IF params[current].next = NULL THEN NULL
    ELSE IF params[params[current].next].hash = hash THEN current
    ELSE PredFrom(params[current].next, hash)

\* what a build can do with the read of current->hash through a null pointer:
\* the process is killed, or the read yields some word and the call goes on
\* to return 0 or 1 with memory in an unknown state
NullReadOutcomes == {<<"crashed", 0>>, <<"undefined", 0>>, <<"undefined", 1>>}

\* ReleasedByRemove that frees the unlinked node and its storage at once
ReleasedByRemoveEager(object, hash) ==
    LET node == rebx_get_param_node(object, hash)
    IN IF node = NULL THEN {} ELSE {node, params[node].contents}

\* what rebx_remove_param passes to free(): nothing ("TODO free memory for deleted node")
ReleasedByRemove(object, hash) == {}

rebx_remove_param(object, hash) ==
    /\ pc = "live"
    /\ LET current == HeadOf(object)
           pre == StoreOf(object)
       IN IF current = NULL
          THEN \E r \in NullReadOutcomes :
                 /\ pc' = r[1]
                 /\ last' = Call("remove_param", object, hash, r[2], FALSE, pre)
                 /\ UNCHANGED <<particles, effects, params, live>>
          ELSE IF params[current].hash = hash
          THEN /\ SetHead(object, params[current].next)
               /\ last' = Call("remove_param", object, hash, 1, FALSE, pre)
               /\ live' = Without(live, <<object, hash>>)
               /\ UNCHANGED <<pc, params>>
          ELSE IF PredFrom(current, hash) # NULL
          THEN /\ params' = [params EXCEPT ![PredFrom(current, hash)].next =
                                params[params[PredFrom(current, hash)].next].next]
               /\ last' = Call("remove_param", object, hash, 1, FALSE, pre)
               /\ live' = Without(live, <<object, hash>>)
               /\ UNCHANGED <<pc, particles, effects>>
          ELSE /\ last' = Call("remove_param", object, hash, 0, FALSE, pre)
               /\ UNCHANGED <<pc, particles, effects, params, live>>
    /\ freed' = freed \cup ReleasedByRemove(object, hash)
    /\ UNCHANGED <<sim, rebx, mem, ledger, written>>
    /\ UNCHANGED <<validateVars, tidesVars, walk, stp>>

\* a call of rebx_get_param by an effect or by the user
get_param(object, hash) ==
    /\ pc = "live"
    /\ last' = Call("get_param", object, hash, rebx_get_param(object, hash), FALSE,
                    StoreOf(object))
    /\ UNCHANGED <<pc, sim, rebx, particles, effects, params, mem, ledger, freed, live, written>>
    /\ UNCHANGED <<validateVars, tidesVars, walk, stp>>

\* the number of elements the caller asked for: length, or ncols * nrows
ElementsOf(shape) == IF Len(shape) = 1 THEN shape[1] ELSE shape[1] * shape[2]

\* the caller fills the storage behind a handle it got from attach or lookup,
\* one value for each element of the shape it asked for; the storage keeps
\* the elements it has room for
WriteContents(handle, v) ==
    /\ pc = "live"
    /\ mem' = [mem EXCEPT ![handle] = [i \in DOMAIN mem[handle] |-> v]]
    /\ written' = (handle :> [i \in 1..ElementsOf(params[ParamAddr(handle[2])].shape) |-> v])
                  @@ written
    /\ last' = Call("write", handle, 0, NULL, FALSE, <<>>)
    /\ UNCHANGED <<pc, sim, rebx, particles, effects, params, ledger, freed, live>>
    /\ UNCHANGED <<validateVars, tidesVars, walk, stp>>

\* ---- rebx_validate_ap_address -----------------------------------------------------------
\* struct rebx_param* address[5]
ArrayLen == 5

\* for(i=0; i<=5; i++)
LoopLast == 5

\* if (i==5)
AbortAt == 5

\* what malloc may hand back: here any address, a tag value included
MallocPool == {TagPtr(j) : j \in REBX_TYPE_EFFECT..REBX_TYPE_PARTICLE}
              \cup {<<"h", k>> : k \in 1..NumHeap}

\* what a read past the end of address[] may yield
Garbage == MallocPool \cup {NULL}

\* the call, up to the first return or the entry of the retry loop
validate_call(newparam) ==
    /\ vpc = "idle"
    /\ vcand' = newparam
    /\ IF ~Collision(newparam)
       THEN /\ vpc' = "returned"
            /\ vret' = newparam
            /\ UNCHANGED <<vaddr, vi, vfreed, vtried>>
       ELSE /\ vpc' = "loop"
            /\ vfreed' = vfreed \cup {newparam}
            /\ vaddr' = [k \in 0..(ArrayLen - 1) |-> NULL]
            /\ vi' = 0
            /\ UNCHANGED <<vret, vtried>>
    /\ UNCHANGED <<coreVars, tidesVars, walk, stp>>

\* one iteration of the retry loop; the store to address[5] is past the array:
\* the build keeps the value next to the array, or the process is killed
validate_retry(a) ==
    /\ vpc = "loop"
    /\ vi <= LoopLast
    /\ vtried' = Append(vtried, a)
    /\ \/ /\ vaddr' = (vi :> a) @@ vaddr
          /\ IF ~Collision(a)
             THEN /\ vpc' = "after"
                  /\ vi' = vi
             ELSE /\ vi' = vi + 1
                  /\ vpc' = IF vi + 1 <= LoopLast THEN "loop" ELSE "after"
       \/ /\ vi >= ArrayLen
          /\ vpc' = "crashed"
          /\ UNCHANGED <<vaddr, vi>>
    /\ UNCHANGED <<vcand, vret, vfreed>>
    /\ UNCHANGED <<coreVars, tidesVars, walk, stp>>

\* after the loop: abort, or release the discarded addresses and return address[i]
validate_exit ==
    /\ vpc = "after"
    /\ IF vi = AbortAt
       THEN /\ vpc' = "aborted"
            /\ UNCHANGED <<vret, vfreed>>
       ELSE /\ vpc' = "returned"
            /\ vfreed' = vfreed \cup {vaddr[j] : j \in 0..(vi - 1)}
            /\ \E g \in Garbage :
                 vret' = IF vi \in DOMAIN vaddr THEN vaddr[vi] ELSE g
    /\ UNCHANGED <<vcand, vaddr, vi, vtried>>
    /\ UNCHANGED <<coreVars, tidesVars, walk, stp>>

NextValidate ==
    \/ \E newparam \in MallocPool : validate_call(newparam)
    \/ \E a \in MallocPool : validate_retry(a)
    \/ validate_exit

SpecValidate == Init /\ [][NextValidate]_vars

\* ---- tides_dynamical.c -------------------------------------------------------------------
\* Values are kept as the expressions that produce them: <<"const", a, b>> is
\* a/b, <<"E_bind", a, b>> is (a/b) * G m^2 / r, <<"EB0", a, b>> is
\* (a/b) * G m M / a_0, <<"num", k>> an int, <<"M", m>> a mean anomaly,
\* <<"user", name>> a value of the user's, <<"computed", name>> a value the
\* call derives from the orbit.
Unset == <<"unset">>

\* the parameters the documentation table lists
TidesDocumented ==
    {"td_dP_crit", "td_c_imag", "td_c_real", "td_EB0", "td_E_max", "td_E_resid"}

\* the parameters the function keeps besides them
TidesInternal == {"td_num_periapse", "td_dP_hat", "td_migrate", "td_M_last", "td_dE_last"}

TidesParams == TidesDocumented \cup TidesInternal

\* the defaults of the documentation table
DocumentedDefault(name) ==
    CASE name = "td_dP_crit" -> <<"const", 1, 100>>
      [] name = "td_c_imag" -> <<"const", 0, 1>>
      [] name = "td_c_real" -> <<"const", 0, 1>>
      [] name = "td_EB0" -> <<"EB0", -1, 2>>
      [] name = "td_E_max" -> <<"E_bind", 1, 10>>
      [] name = "td_E_resid" -> <<"E_bind", 1, 1000>>

\* the names the function gives a value when it finds them unset
DefaultedNames == TidesParams \ {"td_M_last", "td_dE_last"}

\* the value each "if (rebx_get_param(...) == NULL) rebx_set_param_...(...)" stores
CodeDefault(name) ==
    CASE name = "td_EB0" -> <<"EB0", -1, 2>>
      [] name = "td_num_periapse" -> <<"num", 0>>
      [] name = "td_c_real" -> <<"const", 0, 1>>
      [] name = "td_c_imag" -> <<"const", 0, 1>>
      [] name = "td_dP_crit" -> <<"const", 1, 100>>
      [] name = "td_E_max" -> <<"E_bind", 1, 10>>
      [] name = "td_E_resid" -> <<"E_bind", 1, 1000>>
      [] name = "td_dP_hat" -> <<"const", 0, 1>>
      [] name = "td_migrate" -> <<"num", 1>>

\* struct reb_particle* const source = &sim->particles[0]
Source == 0

\* struct reb_particle* const p = &sim->particles[1]
Target == 1

Bodies == 0..(tn - 1)

UserSets == {<<i, name>> \in Bodies \X TidesParams : tap[i][name] = <<"user", name>>}

\* the host builds a simulation of n particles, none with a parameter
tides_build(n) ==
    /\ tpc = "ok"
    /\ tn = 0
    /\ tn' = n
    /\ tap' = [i \in 0..(n - 1) |-> [name \in TidesParams |-> Unset]]
    /\ txv' = [i \in 0..(n - 1) |-> "host"]
    /\ tlast' = [NoTidesCall EXCEPT !.op = "build"]
    /\ UNCHANGED tpc
    /\ UNCHANGED <<coreVars, validateVars, walk, stp>>

\* the user sets one of the documented parameters on a particle
tides_user_set(i, name) ==
    /\ tpc = "ok"
    /\ i \in Bodies
    /\ Cardinality(UserSets) < MaxUserSets
    /\ tap' = [tap EXCEPT ![i][name] = <<"user", name>>]
    /\ tlast' = [NoTidesCall EXCEPT !.op = "set"]
    /\ UNCHANGED <<tpc, tn, txv>>
    /\ UNCHANGED <<coreVars, validateVars, walk, stp>>

\* lines 152-190: every unset parameter of DefaultedNames gets its default
WithDefaults(store) ==
    [name \in TidesParams |->
        IF store[name] = Unset /\ name \in DefaultedNames
        THEN CodeDefault(name)
        ELSE store[name]]

\* Passage that also fires when the mean anomaly has not moved
PassageNotGreater(store, M) ==
    /\ store["td_M_last"] # Unset
    /\ M <= store["td_M_last"][2]

\* if (rebx_get_param(.., "td_M_last") != NULL) ... if (o.M < *M_last)
Passage(store, M) ==
    /\ store["td_M_last"] # Unset
    /\ M < store["td_M_last"][2]

\* lines 200-209: the passage is counted, dP and dE_alpha are recorded
Counted(store) ==
    [store EXCEPT !["td_num_periapse"] = <<"num", @[2] + 1>>,
                  !["td_dP_hat"] = <<"computed", "td_dP_hat">>,
                  !["td_dE_last"] = <<"computed", "td_dE_last">>]

\* lines 243-245: the evolved mode amplitudes (they replace what the
\* non-linear dissipation of lines 230-235 wrote through the pointers)
Evolved(store) ==
    [store EXCEPT !["td_c_real"] = <<"computed", "td_c_real">>,
                  !["td_c_imag"] = <<"computed", "td_c_imag">>]

\* Gate that opens at every passage
GateAtEveryPassage(store, M, chaotic) == Passage(store, M)

\* the modes and the orbit are evolved: inside the passage branch,
\* if (dP >= *dP_crit); chaotic is the outcome of that comparison
Gate(store, M, chaotic) == Passage(store, M) /\ chaotic

\* the parameters of particle p after the call: M is o.M, chaotic is dP >= *dP_crit
StoreAfter(store, M, chaotic) ==
    LET s1 == WithDefaults(store)
        s2 == IF Passage(s1, M) THEN Counted(s1) ELSE s1
        s3 == IF Gate(s1, M, chaotic) THEN Evolved(s2) ELSE s2
    IN [s3 EXCEPT !["td_M_last"] = <<"M", M>>]

\* what a build can do with the accesses to sim->particles[1] when the
\* simulation has a single particle: the process is killed, or the memory
\* after the array is read and written
PastArrayOutcomes == {"crashed", "undefined"}

\* the body of rebx_tides_dynamical acting on sim->particles[p]
TidesStep(p, M, chaotic) ==
    /\ tpc = "ok"
    /\ tn > 0
    /\ IF p \notin Bodies
       THEN /\ tpc' \in PastArrayOutcomes
            /\ tlast' = [op |-> "tides", passage |-> FALSE, evolved |-> FALSE,
                         M |-> M, chaotic |-> chaotic]
            /\ UNCHANGED <<tn, tap, txv>>
       ELSE /\ Passage(WithDefaults(tap[p]), M) =>
                  WithDefaults(tap[p])["td_num_periapse"][2] < MaxPassages
            /\ tap' = [tap EXCEPT ![p] = StoreAfter(tap[p], M, chaotic)]
            /\ txv' = IF Gate(WithDefaults(tap[p]), M, chaotic)
                      THEN [txv EXCEPT ![p] = "kicked"]
                      ELSE txv
            /\ tlast' = [op |-> "tides",
                         passage |-> Passage(WithDefaults(tap[p]), M),
                         evolved |-> Gate(WithDefaults(tap[p]), M, chaotic),
                         M |-> M, chaotic |-> chaotic]
            /\ UNCHANGED <<tpc, tn>>
    /\ UNCHANGED <<coreVars, validateVars, walk, stp>>

\* rebx_tides_dynamical with the source as the particle it updates
rebx_tides_dynamical_OnSource(M, chaotic) == TidesStep(Source, M, chaotic)

rebx_tides_dynamical(M, chaotic) == TidesStep(Target, M, chaotic)

NextTides ==
    \/ \E n \in 1..NumBodies : tides_build(n)
    \/ \E i \in 0..(NumBodies - 1), name \in TidesDocumented : tides_user_set(i, name)
    \/ \E M \in 0..MaxAnomaly, chaotic \in BOOLEAN : rebx_tides_dynamical(M, chaotic)

SpecTides == Init /\ [][NextTides]_vars

\* ---- the core as a state machine ------------------------------------------------------
\* registration of effects
Register ==
    \/ \E name \in EffectNames : rebx_add(name)
    \/ \E name \in EffectNames, cb \in Callbacks, vd \in {0, 1} :
          rebx_add_custom_force(name, cb, vd)
    \/ \E name \in EffectNames, cb \in Callbacks :
          rebx_add_custom_post_timestep_modification(name, cb)

\* the host's step loop calling its two hooks
Dispatch ==
    \/ rebx_forces
    \/ rebx_post_timestep_modifications

\* attach in its three shape forms
Attach ==
    \/ \E object \in Objects, hash \in Names, t \in ParamTypes : rebx_add_param(object, hash, t)
    \/ \E object \in Objects, hash \in Names, t \in ParamTypes, length \in 1..MaxLen :
          rebx_add_param1d(object, hash, t, length)
    \/ \E object \in Objects, hash \in Names, t \in ParamTypes,
          ncols \in 1..MaxLen, nrows \in 1..MaxLen :
          rebx_add_param2d(object, hash, t, ncols, nrows)

Remove == \E object \in Objects, hash \in Names : rebx_remove_param(object, hash)

Lookup == \E object \in Objects, hash \in Names : get_param(object, hash)

Write == \E handle \in DOMAIN mem, v \in Vals : WriteContents(handle, v)

Record == \E param \in DOMAIN params : rebx_add_param_to_be_freed(param)

\* The structure of the parameter stores.  The store operations read and write
\* no callback, hook or ledger field, and no decision of theirs depends on the
\* name of an effect or on a node's type, shape or contents, so the links are
\* explored with scalar attaches of one type and without the dispatch, the
\* ledger and the caller's writes.
AttachScalar ==
    \E object \in Objects, hash \in Names : rebx_add_param(object, hash, REBX_TYPE_DOUBLE)

AnyEffectName == CHOOSE name \in EffectNames : TRUE

AddObject == rebx_add(AnyEffectName)

NextStore ==
    \/ rebx_init
    \/ AddObject
    \/ AttachScalar
    \/ Remove
    \/ Lookup

SpecStore == Init /\ [][NextStore]_vars

\* The contents of the nodes, on the store of one particle: one parameter of
\* any type and shape among single-element parameters, lookup and the
\* caller's writes.
ShapesObject == CHOOSE p \in Particles : TRUE

ScalarsOnly == \A n \in DOMAIN params : params[n].shape = <<1>>

AttachPlain ==
    \E hash \in Names : rebx_add_param(ShapesObject, hash, REBX_TYPE_DOUBLE)

AttachArray ==
    /\ ScalarsOnly
    /\ \/ \E hash \in Names, t \in ParamTypes, length \in 1..MaxLen :
             rebx_add_param1d(ShapesObject, hash, t, length)
       \/ \E hash \in Names, t \in ParamTypes, ncols \in 1..MaxLen, nrows \in 1..MaxLen :
             rebx_add_param2d(ShapesObject, hash, t, ncols, nrows)

NextShapes ==
    \/ rebx_init
    \/ AttachPlain
    \/ AttachArray
    \/ Lookup
    \/ Write

SpecShapes == Init /\ [][NextShapes]_vars

\* ---- one pass of rebx_forces / rebx_post_timestep_modifications, step by step ----------
\* Invoked that calls every callback the effect has, whatever the pass
InvokedBoth(pass, effect) ==
    (IF HasForce(effect) THEN << <<effect, "force">> >> ELSE <<>>)
    \o (IF HasPtm(effect) THEN << <<effect, "ptm">> >> ELSE <<>>)

\* the calls one iteration of the loop makes for current:
\* if(current->force != NULL) current->force(sim, current) in rebx_forces,
\* if(current->ptm != NULL) current->ptm(sim, current) in rebx_post_timestep_modifications
Invoked(pass, effect) ==
    IF pass = "forces"
    THEN IF HasForce(effect) THEN << <<effect, "force">> >> ELSE <<>>
    ELSE IF HasPtm(effect) THEN << <<effect, "ptm">> >> ELSE <<>>

\* the host calls sim->additional_forces: current = rebx->effects
rebx_forces_enter ==
    /\ pc = "live"
    /\ walk.pc = "idle"
    /\ sim.additional_forces = HookForces
    /\ walk' = [pc |-> "forces", current |-> rebx.effects, trace |-> <<>>,
                start |-> EffectsFrom(rebx.effects)]
    /\ UNCHANGED <<coreVars, validateVars, tidesVars, stp>>

\* the host calls sim->post_timestep_modifications: current = rebx->effects
rebx_post_timestep_modifications_enter ==
    /\ pc = "live"
    /\ walk.pc = "idle"
    /\ sim.post_timestep_modifications = HookPtm
    /\ walk' = [pc |-> "ptm", current |-> rebx.effects, trace |-> <<>>,
                start |-> EffectsFrom(rebx.effects)]
    /\ UNCHANGED <<coreVars, validateVars, tidesVars, stp>>

\* one iteration of while(current != NULL){ ...; current = current->next; }
dispatch_iterate ==
    /\ walk.pc # "idle"
    /\ walk.current # NULL
    /\ walk' = [walk EXCEPT !.trace = @ \o Invoked(walk.pc, walk.current),
                            !.current = effects[walk.current].next]
    /\ UNCHANGED <<coreVars, validateVars, tidesVars, stp>>

\* current == NULL: the loop ends and the pass returns to the host
dispatch_exit ==
    /\ walk.pc # "idle"
    /\ walk.current = NULL
    /\ last' = Call(IF walk.pc = "forces" THEN "forces_pass" ELSE "ptm_pass",
                    NULL, 0, walk.trace, FALSE, walk.start)
    /\ walk' = WalkIdle
    /\ UNCHANGED <<pc, sim, rebx, particles, effects, params, mem, ledger, freed, live, written>>
    /\ UNCHANGED <<validateVars, tidesVars, stp>>

\* registration between passes: no callback, a force callback, a modification callback
RegisterBetweenPasses ==
    /\ walk.pc = "idle"
    /\ \/ rebx_add(AnyEffectName)
       \/ \E cb \in Callbacks : rebx_add_custom_force(AnyEffectName, cb, 0)
       \/ \E cb \in Callbacks : rebx_add_custom_post_timestep_modification(AnyEffectName, cb)

NextDispatch ==
    \/ rebx_init
    \/ RegisterBetweenPasses
    \/ rebx_forces_enter
    \/ rebx_post_timestep_modifications_enter
    \/ dispatch_iterate
    \/ dispatch_exit

\* a pass runs on the host's thread to its end: its loop keeps taking steps
SpecDispatch ==
    Init /\ [][NextDispatch]_vars /\ WF_vars(dispatch_iterate) /\ WF_vars(dispatch_exit)

\* ---- steppers.c: rebx_ias15_step -----------------------------------------------------
\* Times are whole numbers of ticks, Ticks of them to the unit in which the
\* dt argument is drawn, so that 0.0001*dt is a whole number of ticks.
Ticks == 10000

\* sim->dt = 0.0001*dt
SmallStep(dt) == dt \div Ticks

\* the step sizes reb_integrator_ias15_part2 may leave in sim->dt: an
\* underflowed one, a small one, one that overshoots t_needed
NextSteps == {0, 1, MaxStepArg * Ticks}

\* while(sim->t < t_needed && fabs(sim->dt/old_dt)>1e-14): over the model's
\* whole numbers the ratio is above 1e-14 exactly when sim->dt is not 0
\* (0/0 is NaN and compares false, x/0 is infinite)
StepLoopCondition == stp.t < stp.t_needed /\ stp.dt # 0

\* the host moves the simulation between steps
stepper_host ==
    /\ stp.pc \in {"idle", "returned"}
    /\ \E t \in 0..MaxTime, dt \in -1..1 :
          stp' = [StepIdle EXCEPT !.t = t, !.dt = dt]
    /\ UNCHANGED <<coreVars, validateVars, tidesVars, walk>>

\* lines 554-560: the locals are taken and the small first timestep is set
rebx_ias15_step_enter(dt) ==
    /\ stp.pc \in {"idle", "returned"}
    /\ stp.calls < MaxChain
    /\ stp' = [stp EXCEPT !.pc = "loop",
                          !.old_t = stp.t,
                          !.t_needed = stp.t + dt,
                          !.old_dt = stp.dt,
                          !.dt = SmallStep(dt),
                          !.iter = 0,
                          !.entry = <<stp.t, stp.dt>>,
                          !.calls = @ + 1]
    /\ UNCHANGED <<coreVars, validateVars, tidesVars, walk>>

\* lines 563-567: reb_integrator_ias15_part2 accepts the step (sim->t moves by
\* sim->dt) or rejects it, and leaves a new sim->dt, which is cut to end at
\* t_needed
rebx_ias15_step_iterate ==
    /\ stp.pc = "loop"
    /\ StepLoopCondition
    /\ stp.iter < MaxIter
    /\ \E accepted \in BOOLEAN, next \in NextSteps :
          LET t == IF accepted THEN stp.t + stp.dt ELSE stp.t
          IN stp' = [stp EXCEPT !.t = t,
                                !.dt = IF t + next > stp.t_needed
                                       THEN stp.t_needed - t
                                       ELSE next,
                                !.iter = @ + 1]
    /\ UNCHANGED <<coreVars, validateVars, tidesVars, walk>>

\* rebx_ias15_step_exit that leaves the last timestep of the loop in sim->dt
rebx_ias15_step_exit_KeepsDt ==
    /\ stp.pc = "loop"
    /\ ~StepLoopCondition
    /\ stp' = [stp EXCEPT !.pc = "returned", !.t = stp.old_t]
    /\ UNCHANGED <<coreVars, validateVars, tidesVars, walk>>

\* lines 569-570: sim->t = old_t; sim->dt = old_dt;
rebx_ias15_step_exit ==
    /\ stp.pc = "loop"
    /\ ~StepLoopCondition
    /\ stp' = [stp EXCEPT !.pc = "returned", !.t = stp.old_t, !.dt = stp.old_dt]
    /\ UNCHANGED <<coreVars, validateVars, tidesVars, walk>>

NextStepper ==
    \/ stepper_host
    \/ \E k \in -1..MaxStepArg : rebx_ias15_step_enter(k * Ticks)
    \/ rebx_ias15_step_iterate
    \/ rebx_ias15_step_exit

SpecStepper == Init /\ [][NextStepper]_vars

\* The links of the stores under attach and remove, on particles and effects.
NextLinks ==
    \/ rebx_init
    \/ AddObject
    \/ AttachScalar
    \/ Remove

SpecLinks == Init /\ [][NextLinks]_vars

\* Removal and the storage behind the handles: attach, the caller's writes,
\* remove and teardown, on the store of one particle.
NextRemove ==
    \/ rebx_init
    \/ AttachPlain
    \/ Write
    \/ Remove
    \/ rebx_free

SpecRemove == Init /\ [][NextRemove]_vars

\* Detaching the hooks from a simulation that has effects, parameters and
\* ledger entries.
NextDetach ==
    \/ rebx_init
    \/ AddObject
    \/ AttachPlain
    \/ Record
    \/ rebx_remove_from_simulation

SpecDetach == Init /\ [][NextDetach]_vars

\* a caller of rebx_add_param_to_be_freed that records a node it has not
\* recorded before
RecordOnce ==
    \E param \in DOMAIN params :
        /\ \A l \in DOMAIN ledger : ledger[l].param # param
        /\ rebx_add_param_to_be_freed(param)

\* Release at teardown: effects, the store of one particle, a ledger that
\* holds each node at most once, and rebx_free.
NextRelease ==
    \/ rebx_init
    \/ AddObject
    \/ AttachPlain
    \/ Remove
    \/ RecordOnce
    \/ rebx_free

SpecRelease == Init /\ [][NextRelease]_vars

\* Teardown: the stores, the ledger and rebx_free.
NextTeardown ==
    \/ rebx_init
    \/ AddObject
    \/ AttachScalar
    \/ Remove
    \/ Record
    \/ rebx_free

SpecTeardown == Init /\ [][NextTeardown]_vars

\* The effect registry and the dispatch pipeline.
NextRegistry ==
    \/ rebx_init
    \/ Register
    \/ Dispatch
    \/ rebx_remove_from_simulation
    \/ rebx_free

SpecRegistry == Init /\ [][NextRegistry]_vars

Next ==
    \/ rebx_init
    \/ Register
    \/ Dispatch
    \/ rebx_remove_from_simulation
    \/ rebx_free
    \/ Attach
    \/ Remove
    \/ Lookup
    \/ Write
    \/ Record
    \/ NextValidate
    \/ NextTides
    \/ NextDispatch
    \/ NextStepper

Spec == Init /\ [][Next]_vars

TypeOK == pc \in {"uninit", "live", "freed", "crashed", "undefined"}

\* ---- properties -----------------------------------------------------------------------
\* the effects in the order they were registered
RegistrationOrder == [i \in 1..Cardinality(DOMAIN effects) |-> EffectAddr(i)]

\* the hashes of the nodes of a store listing
HashesOf(list) == {params[list[i]].hash : i \in 1..Len(list)}

\* C1: every pass of rebx_forces calls the force callbacks in registration
\* order, and every pass of rebx_post_timestep_modifications calls the
\* modification callbacks in registration order.
C1_DispatchInRegistrationOrder ==
    /\ last.op = "forces" => last.ret = SelectSeq(RegistrationOrder, HasForce)
    /\ last.op = "ptm" => last.ret = SelectSeq(RegistrationOrder, HasPtm)

\* C2: after rebx_free every node created by attach and its backing storage
\* has been released.
C2_TeardownReleasesEveryNode ==
    pc = "freed" =>
        \A n \in DOMAIN params : n \in freed /\ params[n].contents \in freed

\* C3: an effect is classified as Effect by rebx_get_object_type right after
\* its registration and after any attachments and removals on it.
C3_EffectStaysEffect ==
    \A e \in DOMAIN effects : rebx_get_object_type(e) = REBX_TYPE_EFFECT

C3_Witness ==
    /\ last.op = "remove_param"
    /\ last.obj \in DOMAIN effects
    /\ last.ret = 1
    /\ StoreOf(last.obj) # <<>>
    /\ rebx_get_object_type(last.obj) = REBX_TYPE_EFFECT

\* C4: rebx_remove_param of a name that is not in the object's store, the
\* empty store included, returns 0, leaves the store unchanged and does not
\* crash.
C4_RemoveAbsentReturnsFalse ==
    (last.op = "remove_param" /\ last.hash \notin HashesOf(last.pre)) =>
        /\ pc = "live"
        /\ last.ret = 0
        /\ StoreOf(last.obj) = last.pre

\* every head and every next link is a real node or the end-of-list marker
LinksAreReal ==
    /\ \A o \in Objects : HeadOf(o) \in DOMAIN params \cup {NULL}
    /\ \A n \in DOMAIN params : params[n].next \in DOMAIN params \cup {NULL}

\* C5: the lookup of a name that is not attached to the object returns NULL,
\* for a particle or a fresh effect without parameters and for a store that
\* holds other names only, and the traversal follows links to real nodes only.
C5_LookupAbsentIsNull ==
    /\ LinksAreReal
    /\ \A o \in Objects, h \in Names :
          <<o, h>> \notin DOMAIN live =>
              /\ rebx_get_param_node(o, h) = NULL
              /\ rebx_get_param(o, h) = NULL

C5_Witness ==
    /\ last.op = "get_param"
    /\ last.obj \in DOMAIN effects
    /\ last.pre = <<>>
    /\ last.ret = NULL
    /\ \E p \in Particles, h \in Names :
          /\ StoreOf(p) # <<>>
          /\ <<p, h>> \notin DOMAIN live
          /\ rebx_get_param(p, h) = NULL

\* C6: an attach of a name that is attached to the object and has not been
\* removed returns NULL, reports the error and leaves the stores as they were.
C6_SecondAttachFails ==
    [][(last'.op = "add_param" /\ <<last'.obj, last'.hash>> \in DOMAIN live) =>
          /\ last'.ret = NULL
          /\ last'.err
          /\ UNCHANGED <<particles, effects, params, mem, live>>]_vars

C6_Witness ==
    /\ last.op = "add_param"
    /\ last.err
    /\ last.ret = NULL
    /\ Len(last.pre) = 2
    /\ params[last.pre[2]].hash = last.hash
    /\ StoreOf(last.obj) = last.pre

C8_RemovePresent ==
    (last.op = "remove_param" /\ last.hash \in HashesOf(last.pre)) =>
        /\ last.ret = 1
        /\ rebx_get_param_node(last.obj, last.hash) = NULL
        /\ rebx_get_param(last.obj, last.hash) = NULL

C8_Witness ==
    /\ last.op = "remove_param"
    /\ last.ret = 1
    /\ Len(last.pre) = 2
    /\ params[last.pre[2]].hash = last.hash
    /\ rebx_get_param(last.obj, last.hash) = NULL

\* the nodes the ledger refers to
LedgerParams == {ledger[l].param : l \in Range(LedgerFrom(rebx.params_to_be_freed))}

\* C9: before teardown the nodes the ledger refers to are the nodes attach
\* has created.
C9_LedgerRecordsEveryNode ==
    pc = "live" => LedgerParams = DOMAIN params

\* C10: when the candidate and every address the retry loop obtained are tag
\* values, rebx_validate_ap_address aborts and returns no address.
C10_ExhaustionAborts ==
    (/\ vpc \in {"returned", "aborted"}
     /\ Collision(vcand)
     /\ \A i \in 1..Len(vtried) : Collision(vtried[i])) =>
        vpc = "aborted"

\* C11: rebx_add of a name that is no built-in effect reports a configuration
\* error through reb_error.
C11_UnknownNameIsReported ==
    (last.op = "add" /\ last.hash \notin BuiltinNames) => last.err

\* C12: rebx_add of a built-in name returns an effect whose force or
\* modification callback is the built-in callback of that name, so that the
\* next pass of its kind calls the effect.
C12_BuiltinNameIsWired ==
    (last.op = "add" /\ last.hash \in BuiltinNames) =>
        /\ \/ effects[last.ret].force = BuiltinCallback(last.hash)
           \/ effects[last.ret].ptm = BuiltinCallback(last.hash)
        /\ last.ret \in Range(ForcePass) \cup Range(PtmPass)

\* C13: rebx_remove_param releases nothing: before teardown every node attach
\* created, unlinked or not, and its backing storage are unreleased, and the
\* storage holds the values last written through its handle.
C13_RemoveDefersRelease ==
    pc = "live" =>
        \A n \in DOMAIN params :
            /\ n \notin freed
            /\ params[n].contents \notin freed
            /\ params[n].contents \in DOMAIN mem
            /\ params[n].contents \in DOMAIN written =>
                   mem[params[n].contents] = written[params[n].contents]

C13_Witness ==
    /\ pc = "live"
    /\ last.op = "remove_param"
    /\ last.ret = 1
    /\ \E i \in 1..Len(last.pre) :
          /\ params[last.pre[i]].hash = last.hash
          /\ last.pre[i] \notin Range(StoreOf(last.obj))
          /\ params[last.pre[i]].contents \in DOMAIN written
          /\ mem[params[last.pre[i]].contents] = written[params[last.pre[i]].contents]
          /\ params[last.pre[i]].contents \notin freed

\* C14: rebx_add_custom_force(name, cb, vd) returns a new effect, registered at
\* the head of the registry, with force callback cb and no modification
\* callback, and the flag force_is_velocity_dependent is 1 after it when vd is
\* nonzero and as before when vd is zero;
\* rebx_add_custom_post_timestep_modification(name, cb) returns a new
\* registered effect with modification callback cb and no force callback, and
\* leaves the flag as it was.
C14_CallbackForms ==
    [][/\ last'.op = "add_custom_force" =>
            /\ last'.ret \in DOMAIN effects' \ DOMAIN effects
            /\ rebx'.effects = last'.ret
            /\ effects'[last'.ret].hash = last'.hash
            /\ effects'[last'.ret].force = last'.pre[1]
            /\ effects'[last'.ret].ptm = NULL
            /\ sim'.force_is_velocity_dependent =
                   IF last'.pre[2] # 0 THEN 1 ELSE sim.force_is_velocity_dependent
       /\ last'.op = "add_custom_ptm" =>
            /\ last'.ret \in DOMAIN effects' \ DOMAIN effects
            /\ rebx'.effects = last'.ret
            /\ effects'[last'.ret].hash = last'.hash
            /\ effects'[last'.ret].ptm = last'.pre[1]
            /\ effects'[last'.ret].force = NULL
            /\ sim'.force_is_velocity_dependent = sim.force_is_velocity_dependent]_vars

C14_Witness ==
    /\ last.op = "add_custom_ptm"
    /\ effects[last.ret].ptm \in Callbacks
    /\ sim.force_is_velocity_dependent = 1
    /\ \E e \in DOMAIN effects :
          /\ effects[e].force \in Callbacks
          /\ effects[e].ptm = NULL
          /\ e \in Range(EffectsFrom(rebx.effects))

\* C15: right after rebx_init the simulation's extras slot refers to the
\* extras state, the extras state refers back to the simulation, the two
\* hooks are rebx_forces and rebx_post_timestep_modifications whatever they
\* were before, and the effect registry and the ledger are empty.
C15_Initialization ==
    last.op = "init" =>
        /\ sim.extras = RebxPtr
        /\ rebx.sim = SimPtr
        /\ sim.additional_forces = HookForces
        /\ sim.post_timestep_modifications = HookPtm
        /\ rebx.effects = NULL
        /\ rebx.params_to_be_freed = NULL

C15_Witness ==
    /\ last.op = "init"
    /\ last.pre = <<UserHook, NULL>>
    /\ sim.additional_forces = HookForces
    /\ sim.post_timestep_modifications = HookPtm
    /\ sim.extras = RebxPtr

\* C16: rebx_remove_from_simulation sets both hooks to NULL and changes
\* nothing else: the extras slot and state, the registry, the ledger, the
\* stores and their storage are as before and nothing is released.
C16_DetachClearsHooksOnly ==
    [][last'.op = "remove_from_simulation" =>
          /\ sim' = [sim EXCEPT !.additional_forces = NULL,
                                !.post_timestep_modifications = NULL]
          /\ UNCHANGED <<rebx, particles, effects, params, mem, ledger, freed>>]_vars

C16_Witness ==
    /\ last.op = "remove_from_simulation"
    /\ sim.additional_forces = NULL
    /\ sim.post_timestep_modifications = NULL
    /\ sim.extras = RebxPtr
    /\ rebx.effects # NULL
    /\ rebx.params_to_be_freed # NULL
    /\ \E p \in Particles : StoreOf(p) # <<>>

\* C17: a call of rebx_tides_dynamical leaves, on every particle with index
\* >= 1, each documented parameter that was unset at its documented default,
\* and, when the call detects no periapse passage, each documented parameter
\* that was set at the value it had.
C17_TidesDefaults ==
    [][(tlast'.op = "tides" /\ tpc' = "ok") =>
          \A i \in Bodies \ {Source}, name \in TidesDocumented :
              /\ tap[i][name] = Unset => tap'[i][name] = DocumentedDefault(name)
              /\ (tap[i][name] # Unset /\ ~tlast'.passage) =>
                     tap'[i][name] = tap[i][name]]_vars

\* C18: no call of rebx_tides_dynamical changes the position, the velocity or
\* the parameters of the particle with index 0.
C18_SourceUntouched ==
    [][tlast'.op = "tides" =>
          /\ tap'[Source] = tap[Source]
          /\ txv'[Source] = txv[Source]]_vars

C18_Witness ==
    /\ tlast.op = "tides"
    /\ tlast.evolved
    /\ txv[Target] = "kicked"
    /\ txv[Source] = "host"
    /\ \E name \in TidesDocumented : tap[Source][name] = <<"user", name>>
    /\ \A name \in TidesParams \ TidesDocumented : tap[Source][name] = Unset

C20_ValidatedAddress ==
    /\ vpc = "returned" => ~Collision(vret)
    /\ (/\ vpc \in {"returned", "aborted"}
        /\ Collision(vcand)
        /\ vtried # <<>>
        /\ ~Collision(vtried[Len(vtried)])) =>
           /\ vpc = "returned"
           /\ vret = vtried[Len(vtried)]

\* C21: every index at which rebx_validate_ap_address writes or reads
\* address[] lies in 0..4: the index the retry loop is about to write, the
\* slots it has written, and the index it releases up to and returns from.
C21_RetryIndexInBounds ==
    /\ vpc = "loop" => vi \in 0..(ArrayLen - 1)
    /\ DOMAIN vaddr \subseteq 0..(ArrayLen - 1)
    /\ (vpc = "returned" /\ Collision(vcand)) => vi \in 0..(ArrayLen - 1)

\* the number of times x occurs in seq
Count(seq, x) == Cardinality({i \in 1..Len(seq) : seq[i] = x})

\* what a finished pass of the given kind has called: the callback of that
\* kind of every registered effect that has one, once, and nothing else
PassCovers(kind) ==
    /\ last.pre = EffectsFrom(rebx.effects)
    /\ \A e \in Range(EffectsFrom(rebx.effects)) :
          Count(last.ret, <<e, kind>>) =
              IF (IF kind = "force" THEN HasForce(e) ELSE HasPtm(e)) THEN 1 ELSE 0
    /\ \A i \in 1..Len(last.ret) :
          /\ last.ret[i][2] = kind
          /\ last.ret[i][1] \in Range(EffectsFrom(rebx.effects))

\* C22: a finished pass of rebx_forces has called the force callback of every
\* registered effect that has one exactly once and no modification callback,
\* a finished pass of rebx_post_timestep_modifications the modification
\* callback of every registered effect that has one exactly once and no force
\* callback; the registry is the same during and after a pass; and every
\* pass that has begun ends.
C22_DispatchCoverage ==
    /\ [](/\ last.op = "forces_pass" => PassCovers("force")
          /\ last.op = "ptm_pass" => PassCovers("ptm"))
    /\ [][walk.pc # "idle" => UNCHANGED <<effects, rebx>>]_vars
    /\ (walk.pc # "idle") ~> (walk.pc = "idle")

C22_Witness ==
    /\ last.op = "ptm_pass"
    /\ last.ret = <<>>
    /\ Len(last.pre) = MaxEffects
    /\ \A e \in Range(last.pre) : HasForce(e) /\ ~HasPtm(e)

\* C23: no two nodes of one object's store have the same hash.
C23_HashesUnique ==
    \A o \in Objects :
        \A i, j \in 1..Len(StoreOf(o)) :
            i # j => params[StoreOf(o)[i]].hash # params[StoreOf(o)[j]].hash

C23_Witness ==
    /\ last.op = "add_param"
    /\ last.err
    /\ Len(last.pre) = 2
    /\ \E i \in 1..2 : params[last.pre[i]].hash = last.hash
    /\ StoreOf(last.obj) = last.pre

RECURSIVE RemoveFirstMatch(_, _)
\* the listing without its first node of the given hash
RemoveFirstMatch(list, hash) ==
    IF list = <<>> THEN <<>>
    ELSE IF params[Head(list)].hash = hash THEN Tail(list)
    ELSE <<Head(list)>> \o RemoveFirstMatch(Tail(list), hash)

\* every node that existed keeps its hash, type, shape and storage, and the
\* storage its contents
NodesKeepContents ==
    /\ mem' = mem \/ \A c \in DOMAIN mem : c \in DOMAIN mem' /\ mem'[c] = mem[c]
    /\ \A n \in DOMAIN params :
          /\ n \in DOMAIN params'
          /\ [params'[n] EXCEPT !.next = NULL] = [params[n] EXCEPT !.next = NULL]

C25_ReleasedOnceInOrder ==
    last.op = "free" =>
        LET log == last.pre
            ofLedger == {i \in 1..Len(log) :
                            log[i] \in DOMAIN ledger \cup DOMAIN params \cup DOMAIN mem}
            ofRegistry == {i \in 1..Len(log) : log[i] \in DOMAIN effects}
        IN /\ \A i, j \in 1..Len(log) : i # j => log[i] # log[j]
           /\ \A i \in ofLedger, j \in ofRegistry : i < j
           /\ log[Len(log)] = RebxPtr
           /\ ofLedger \cup ofRegistry = 1..(Len(log) - 1)
           /\ DOMAIN ledger \subseteq Range(log)
           /\ \A l \in DOMAIN ledger :
                 {ledger[l].param, params[ledger[l].param].contents} \subseteq Range(log)
           /\ DOMAIN effects \subseteq Range(log)
           /\ Range(log) \subseteq freed

C25_Witness ==
    /\ last.op = "free"
    /\ pc = "freed"
    /\ Cardinality(DOMAIN ledger) = MaxLedger
    /\ rebx.effects # NULL
    /\ \E n \in DOMAIN params : n \notin Range(StoreOf(ShapesObject))

\* C26: after rebx_free the simulation's force hook and post-step hook are
\* no longer the core's dispatch functions and its extension slot no longer
\* holds the released extras state.
C26_TeardownDeregisters ==
    pc = "freed" =>
        /\ sim.additional_forces # HookForces
        /\ sim.post_timestep_modifications # HookPtm
        /\ sim.extras # RebxPtr

\* the passages counted so far on a particle, none while the counter is unset
NumPeriapse(store) ==
    IF store["td_num_periapse"] = Unset THEN 0 ELSE store["td_num_periapse"][2]

\* C27: after each call of rebx_tides_dynamical td_M_last is the mean anomaly
\* of that call; td_num_periapse goes up by one in a call exactly when
\* td_M_last was set before the call and the mean anomaly is smaller than it,
\* so never in a first call; in every other call, and in every other step,
\* it keeps its value.
C27_PeriapseCounting ==
    /\ [][(tlast'.op = "tides" /\ tpc' = "ok") =>
            LET old == tap[Target]
                new == tap'[Target]
                smaller == /\ old["td_M_last"] # Unset
                           /\ tlast'.M < old["td_M_last"][2]
            IN /\ new["td_M_last"] = <<"M", tlast'.M>>
               /\ smaller => NumPeriapse(new) = NumPeriapse(old) + 1
               /\ ~smaller => NumPeriapse(new) = NumPeriapse(old)
               /\ old["td_M_last"] = Unset => NumPeriapse(new) = NumPeriapse(old)]_vars
    /\ [][\A i \in DOMAIN tap \cap DOMAIN tap' :
            NumPeriapse(tap'[i]) >= NumPeriapse(tap[i])]_vars

C27_Witness ==
    /\ tlast.op = "tides"
    /\ tpc = "ok"
    /\ tlast.M < MaxAnomaly
    /\ NumPeriapse(tap[Target]) = 1
    /\ tap[Target]["td_M_last"] = <<"M", tlast.M>>
    /\ tlast.passage

\* a mode amplitude as the function reads it: an unset one is its default
Amplitude(store, name) ==
    IF store[name] = Unset THEN CodeDefault(name) ELSE store[name]

\* C28: a call of rebx_tides_dynamical changes the particle's position and
\* velocity and the mode amplitudes td_c_real and td_c_imag only when it
\* detects a periapse passage and dP >= td_dP_crit; every other call leaves
\* them as they were. td_dP_hat and td_dE_last are recorded at every
\* detected passage.
C28_CriticalPhaseGate ==
    [][(tlast'.op = "tides" /\ tpc' = "ok") =>
        LET old == tap[Target]
            new == tap'[Target]
            detected == /\ old["td_M_last"] # Unset
                        /\ tlast'.M < old["td_M_last"][2]
        IN /\ ~(detected /\ tlast'.chaotic) =>
                 /\ txv' = txv
                 /\ Amplitude(new, "td_c_real") = Amplitude(old, "td_c_real")
                 /\ Amplitude(new, "td_c_imag") = Amplitude(old, "td_c_imag")
           /\ detected =>
                 /\ new["td_dP_hat"] = <<"computed", "td_dP_hat">>
                 /\ new["td_dE_last"] = <<"computed", "td_dE_last">>]_vars

C28_Witness ==
    /\ tlast.op = "tides"
    /\ tpc = "ok"
    /\ tlast.passage
    /\ ~tlast.chaotic
    /\ txv[Target] = "host"
    /\ tap[Target]["td_dP_hat"] = <<"computed", "td_dP_hat">>
    /\ tap[Target]["td_c_real"] = <<"user", "td_c_real">>

\* C29: when rebx_ias15_step returns, sim->t and sim->dt are what they were
\* when it was called, whatever dt it was given and however many times its
\* loop ran, in the first call and in a call that follows another.
C29_StepRestoresTimeAndStep ==
    stp.pc = "returned" => stp.t = stp.entry[1] /\ stp.dt = stp.entry[2]

C29_Witness ==
    /\ stp.pc = "returned"
    /\ stp.calls = 2
    /\ stp.iter >= 2
    /\ stp.entry = <<1, -1>>
    /\ stp.t_needed = 1 + Ticks

====
